---- MODULE Spec2Model ----
(***************************************************************************)
(* Playback engine of src/src/components/MapComponent.tsx: the React       *)
(* state and refs of MapComponent, its two playback effects, the animate   *)
(* frame callback and the play/pause and reset button handlers.            *)
(*                                                                         *)
(* Units.  Wall-clock instants (Date.now(), parsed waypoint timestamps)    *)
(* are whole seconds, so the code's "/ 1000" yields the integers kept      *)
(* here.  Coordinates are degrees.  All waypoints lie on the equator,      *)
(* where the haversine formula reduces to R * |dLon| in radians; distances *)
(* are kept in degrees of arc (one unit = R * pi / 180 metres).            *)
(*                                                                         *)
(* IEEE-754 numbers that the code can drive to NaN or an infinity are      *)
(* records [k, n, d]: k = "fin" is the rational n/d in lowest terms.       *)
(***************************************************************************)
EXTENDS Integers, Sequences, FiniteSets, TLC

\* ---------------------------------------------------------------- bounds
MaxLen   == 3      \* longest route loaded
MaxStamp == 2      \* waypoint timestamps are Epoch + 0..MaxStamp
MaxNow   == 6      \* last wall-clock instant a frame is delivered at
MaxDelta == 2      \* largest gap between two reads of the clock
MaxTrace == 3      \* samples recorded per session by the determinism ghost
MaxFrames == 3     \* pool of animation-frame request ids

Now0     == 1      \* wall-clock instant at mount
FarEpoch == 10     \* a recording made after every instant of the model

\* ------------------------------------------------------------ JS numbers
Abs(x) == IF x < 0 THEN -x ELSE x

RECURSIVE GCD(_, _)
GCD(a, b) == IF b = 0 THEN a ELSE GCD(b, a % b)

NaN  == [k |-> "nan",  n |-> 0, d |-> 1]
PInf == [k |-> "pinf", n |-> 0, d |-> 1]
NInf == [k |-> "ninf", n |-> 0, d |-> 1]

\* the rational n/d (d # 0) in lowest terms with a positive denominator
Fin(n, d) ==
  LET s == IF d < 0 THEN -1 ELSE 1
      g == GCD(Abs(n), Abs(d))
  IN  [k |-> "fin", n |-> (s * n) \div g, d |-> (s * d) \div g]

Num(i) == [k |-> "fin", n |-> i, d |-> 1]

IsFinite(a) == a.k = "fin"
IsNaN(a)    == a.k = "nan"
Sign(a) == CASE a.k = "pinf" -> 1
             [] a.k = "ninf" -> -1
             [] a.k = "fin"  -> (IF a.n > 0 THEN 1 ELSE IF a.n < 0 THEN -1 ELSE 0)
             [] a.k = "nan"  -> 0
SignedInf(s) == IF s > 0 THEN PInf ELSE NInf

FNeg(a) == CASE a.k = "fin"  -> Fin(-a.n, a.d)
             [] a.k = "pinf" -> NInf
             [] a.k = "ninf" -> PInf
             [] a.k = "nan"  -> NaN

FAdd(a, b) ==
  IF IsNaN(a) \/ IsNaN(b) THEN NaN
  ELSE IF IsFinite(a) /\ IsFinite(b) THEN Fin(a.n * b.d + b.n * a.d, a.d * b.d)
  ELSE IF IsFinite(a) THEN b
  ELSE IF IsFinite(b) THEN a
  ELSE IF a.k = b.k THEN a ELSE NaN

FSub(a, b) == FAdd(a, FNeg(b))

FMul(a, b) ==
  IF IsNaN(a) \/ IsNaN(b) THEN NaN
  ELSE IF IsFinite(a) /\ IsFinite(b) THEN Fin(a.n * b.n, a.d * b.d)
  ELSE IF Sign(a) = 0 \/ Sign(b) = 0 THEN NaN
  ELSE SignedInf(Sign(a) * Sign(b))

\* a / b; the zero divisors the code meets are +0
FDiv(a, b) ==
  IF IsNaN(a) \/ IsNaN(b) THEN NaN
  ELSE IF IsFinite(a) /\ IsFinite(b)
       THEN IF b.n # 0 THEN Fin(a.n * b.d, a.d * b.n)
            ELSE IF a.n = 0 THEN NaN ELSE SignedInf(Sign(a))
  ELSE IF IsFinite(b) THEN SignedInf(Sign(a) * (IF Sign(b) < 0 THEN -1 ELSE 1))
  ELSE IF IsFinite(a) THEN Num(0)
  ELSE NaN

\* a < b; false when either side is NaN
FLt(a, b) ==
  IF IsNaN(a) \/ IsNaN(b) THEN FALSE
  ELSE IF IsFinite(a) /\ IsFinite(b) THEN a.n * b.d < b.n * a.d
  ELSE IF a.k = b.k THEN FALSE
  ELSE a.k = "ninf" \/ b.k = "pinf"

FGe(a, b) == IF IsNaN(a) \/ IsNaN(b) THEN FALSE ELSE ~FLt(a, b)
FGt(a, b) == FLt(b, a)

\* Math.min(a, b)
FMin(a, b) == IF IsNaN(a) \/ IsNaN(b) THEN NaN ELSE IF FLt(b, a) THEN b ELSE a

FAbs(a) == IF IsFinite(a) THEN Fin(Abs(a.n), a.d) ELSE IF IsNaN(a) THEN NaN ELSE PInf

\* ----------------------------------------------------------------- routes
Epochs == {0, FarEpoch}
Lngs   == {0, 2}

NonDecreasing(ts) == \A i \in DOMAIN ts : \A j \in DOMAIN ts : i <= j => ts[i] <= ts[j]

\* LocationPoint[] of n points on the equator with non-decreasing timestamps;
\* the first point is at longitude 0 and is stamped with the epoch
RoutesOfLen(n) ==
  { [i \in 1..n |-> [latitude |-> 0, longitude |-> g[i], timestamp |-> e + ts[i]]] :
      g \in { f \in [1..n -> Lngs] : n >= 1 => f[1] = 0 }, e \in Epochs,
      ts \in { f \in [1..n -> 0..MaxStamp] :
                 NonDecreasing(f) /\ (n >= 1 => f[1] = 0) } }

Routes == UNION { RoutesOfLen(n) : n \in 0..MaxLen }

\* new Date(timestamp).getTime() / 1000 of a waypoint's ISO string
getTime(stamp) == stamp
\* new Date(timestamp).toISOString(): the string of the same instant
toISOString(stamp) == stamp

\* haversineDistance on the equator (both latitudes 0): the central angle is
\* |dLon|; any non-finite argument makes Math.sin/Math.cos return NaN
haversineDistance(lat1, lon1, lat2, lon2) ==
  IF ~(IsFinite(lat1) /\ IsFinite(lon1) /\ IsFinite(lat2) /\ IsFinite(lon2)) THEN NaN
  ELSE CASE lat1 = Num(0) /\ lat2 = Num(0) -> FAbs(FSub(lon2, lon1))

\* ------------------------------------------------------------------ state
VARIABLES
  route,              \* useState<LocationPoint[]>([])
  currentIndex,       \* useState<number>(0)
  playing,            \* useState<boolean>(false)
  elapsedTime,        \* useState<number>(0)
  distanceTravelled,  \* useState<number>(0)
  speed,              \* useState<number>(0)
  animationRef,       \* useRef<number | null>: 0 is null (only tested for truth)
  startTimeRef,       \* useRef<number | null>: 0 is null (only tested for truth)
  lastTimestampRef,   \* useRef<string | null>: <<>> is null, <<s>> the string s
  lastPositionRef,    \* useRef<[number, number] | null>: <<>> is null
  progressRef,        \* useRef<number>(0)
  now,                \* the wall clock at its last read
  frames,             \* requestAnimationFrame callbacks not yet run or cancelled
  fetching,           \* the mount effect's fetch has not resolved yet
  pending,            \* a state update awaits its render and effects
  rendered,           \* playing, currentIndex, route of the last render
  phase,              \* history: the last command or completion
  ticked,             \* history: animate has run this session
  prevStop,           \* history: what ended the session before this one
  rec,                \* history: samples are being recorded
  origin,             \* history: instant of this session's first sample, 0 if none
  trace               \* history: the first samples of the session being played

state == <<route, currentIndex, playing, elapsedTime, distanceTravelled, speed>>
refs  == <<animationRef, startTimeRef, lastTimestampRef, lastPositionRef, progressRef>>
ghost == <<phase, ticked, prevStop, rec, origin, trace>>
vars  == <<state, refs, now, frames, fetching, pending, rendered, ghost>>

\* the playback fields the stop effect, the reset handler and animate write
Fields ==
  [currentIndex |-> currentIndex, elapsedTime |-> elapsedTime,
   distanceTravelled |-> distanceTravelled, speed |-> speed,
   progressRef |-> progressRef, lastTimestampRef |-> lastTimestampRef,
   lastPositionRef |-> lastPositionRef, startTimeRef |-> startTimeRef]

SetFields(s) ==
  /\ currentIndex' = s.currentIndex
  /\ elapsedTime' = s.elapsedTime
  /\ distanceTravelled' = s.distanceTravelled
  /\ speed' = s.speed
  /\ progressRef' = s.progressRef
  /\ lastTimestampRef' = s.lastTimestampRef
  /\ lastPositionRef' = s.lastPositionRef
  /\ startTimeRef' = s.startTimeRef

\* a setState call schedules a render only when the value differs
StateChanged(s) ==
  \/ s.currentIndex # currentIndex
  \/ s.elapsedTime # elapsedTime
  \/ s.distanceTravelled # distanceTravelled
  \/ s.speed # speed

FrameIds == 1..MaxFrames

\* requestAnimationFrame returns an id no live request or ref still holds
NewFrameId(fs, ref) ==
  CHOOSE i \in FrameIds :
    /\ i # ref
    /\ \A f \in fs : f.id # i
    /\ \A j \in FrameIds : (j # ref /\ \A f \in fs : f.id # j) => i <= j

\* a cancellation that leaves the request in the browser's queue
cancelAnimationFrame_Noop(fs, id) == fs

\* cancelAnimationFrame(id), called only when id is truthy
cancelAnimationFrame(fs, id) == { f \in fs : f.id # id }

InitState ==
  /\ route = <<>>
  /\ currentIndex = 0
  /\ playing = FALSE
  /\ elapsedTime = Num(0)
  /\ distanceTravelled = Num(0)
  /\ speed = Num(0)
  /\ animationRef = 0
  /\ startTimeRef = 0
  /\ lastTimestampRef = <<>>
  /\ lastPositionRef = <<>>
  /\ progressRef = Num(0)
  /\ now = Now0
  /\ frames = {}
  /\ fetching = TRUE
  /\ pending = FALSE
  /\ rendered = [playing |-> FALSE, currentIndex |-> 0, route |-> <<>>]
  /\ phase = "init"
  /\ ticked = FALSE
  /\ prevStop = "init"
  /\ origin = 0
  /\ trace = <<>>

Init == InitState /\ rec = FALSE

\* the same program with the sample history switched on
InitTrace == InitState /\ rec = TRUE

\* fetch("/dummy-route.json") resolves: setRoute(data)
LoadRoute(data) ==
  /\ fetching
  /\ fetching' = FALSE
  /\ route' = data
  /\ pending' = (pending \/ data # route)
  /\ UNCHANGED <<currentIndex, playing, elapsedTime, distanceTravelled, speed,
                 refs, now, frames, rendered, ghost>>

\* the stop effect without its setCurrentIndex(0)
ResetOnStop_KeepsIndex(s) ==
  [s EXCEPT !.elapsedTime = Num(0),
            !.distanceTravelled = Num(0), !.speed = Num(0),
            !.progressRef = Num(0), !.lastTimestampRef = <<>>,
            !.lastPositionRef = <<>>]

\* lines 62-68: what the effect on [playing, route] writes when !playing
ResetOnStop(s) ==
  [s EXCEPT !.currentIndex = 0, !.elapsedTime = Num(0),
            !.distanceTravelled = Num(0), !.speed = Num(0),
            !.progressRef = Num(0), !.lastTimestampRef = <<>>,
            !.lastPositionRef = <<>>]

\* the play effect without its startTimeRef.current = null
ClearOrigin_Keeps(s) == s

\* line 118: the effect on [playing, animate] clears the wall-clock origin
ClearOrigin(s) == [s EXCEPT !.startTimeRef = 0]

\* One render and the effects it triggers.  Effects whose dependencies
\* changed run their cleanups first, then their bodies in source order.
Commit ==
  /\ pending
  /\ LET e1  == playing # rendered.playing \/ route # rendered.route
         e2  == e1 \/ currentIndex # rendered.currentIndex
         \* cleanup of the [playing, animate] effect (line 125)
         fs1 == IF e2 /\ animationRef # 0
                  THEN cancelAnimationFrame(frames, animationRef) ELSE frames
         \* effect on [playing, route] (lines 61-70)
         stop == e1 /\ ~playing
         s1  == IF stop THEN ResetOnStop(Fields) ELSE Fields
         fs2 == IF stop /\ animationRef # 0
                  THEN cancelAnimationFrame(fs1, animationRef) ELSE fs1
         \* effect on [playing, animate] (lines 117-122)
         start == e2 /\ playing
         s2  == IF start THEN ClearOrigin(s1) ELSE s1
         id  == NewFrameId(fs2, animationRef)
         fs3 == IF start
                  THEN fs2 \cup {[id |-> id, playing |-> playing,
                                  currentIndex |-> currentIndex]}
                  ELSE IF e2 /\ animationRef # 0
                         THEN cancelAnimationFrame(fs2, animationRef) ELSE fs2
     IN  /\ SetFields(s2)
         /\ frames' = fs3
         /\ animationRef' = IF start THEN id ELSE animationRef
         /\ pending' = StateChanged(s2)
         /\ rendered' = [playing |-> playing, currentIndex |-> currentIndex,
                         route |-> route]
  /\ UNCHANGED <<route, playing, now, fetching, ghost>>

\* the reset handler without its setDistanceTravelled(0)
ResetHandler_KeepsDistance(s) ==
  [s EXCEPT !.currentIndex = 0, !.elapsedTime = Num(0),
            !.speed = Num(0),
            !.progressRef = Num(0), !.lastTimestampRef = <<>>,
            !.lastPositionRef = <<>>]

\* lines 157-164: the reset button's handler
ResetHandler(s) ==
  [s EXCEPT !.currentIndex = 0, !.elapsedTime = Num(0),
            !.distanceTravelled = Num(0), !.speed = Num(0),
            !.progressRef = Num(0), !.lastTimestampRef = <<>>,
            !.lastPositionRef = <<>>]

\* the buttons are rendered only once the route is non-empty (line 129)
ButtonsShown == Len(rendered.route) > 0

\* line 152: onClick={() => setPlaying(!playing)}, playing of the last render
TogglePlaying ==
  /\ ButtonsShown
  /\ playing' = ~rendered.playing
  /\ pending' = (pending \/ playing' # playing)
  /\ phase' = IF playing' THEN "playing" ELSE "paused"
  /\ ticked' = FALSE
  /\ prevStop' = IF playing' THEN phase ELSE prevStop
  /\ origin' = 0
  /\ trace' = <<>>
  /\ UNCHANGED <<route, currentIndex, elapsedTime, distanceTravelled, speed,
                 refs, now, frames, fetching, rendered, rec>>

\* the play/pause button clicked once the last update has been rendered
PlayPauseClick == ~pending /\ TogglePlaying

\* lines 156-165: the reset button
ResetAll ==
  /\ ButtonsShown
  /\ LET s == ResetHandler(Fields)
     IN  /\ SetFields(s)
         /\ playing' = FALSE
         /\ pending' = (pending \/ playing \/ StateChanged(s))
  /\ phase' = "reset"
  /\ ticked' = FALSE
  /\ origin' = 0
  /\ trace' = <<>>
  /\ UNCHANGED <<route, animationRef, now, frames, fetching, rendered,
                 prevStop, rec>>

\* the reset button clicked once the last update has been rendered
ResetClick == ~pending /\ ResetAll

\* line 89: seconds between the timestamps of the segment's two waypoints
TimeDiff(cur, next) == getTime(next.timestamp) - getTime(cur.timestamp)

\* lines 90-91: progress within the segment
Progress(elapsed, index, timeDiff) ==
  LET segmentElapsed == elapsed - (index * timeDiff)
  IN  FMin(FDiv(Num(segmentElapsed), Num(timeDiff)), Num(1))

\* lines 93-94: linear interpolation of one coordinate
Interpolate(a, b, p) == FAdd(Num(a), FMul(Num(b - a), p))

\* setCurrentIndex(prev => prev + 1) without the Math.min
NextIndex_Unclamped(prev) == prev + 1

\* setCurrentIndex(prev => Math.min(prev, route.length - 1)), the + 1 lost
NextIndex_Stuck(prev) == IF prev < Len(route) - 1 THEN prev ELSE Len(route) - 1

\* line 108: prev => Math.min(prev + 1, route.length - 1)
NextIndex(prev) == IF prev + 1 < Len(route) - 1 THEN prev + 1 ELSE Len(route) - 1

\* lines 84-111 of animate for the closure's index, run at instant t with
\* the second Date.now() of line 110 returning t2
AnimateStep(s, index, t, t2) ==
  LET current  == route[index + 1]
      next     == route[index + 2]
      start    == IF s.startTimeRef = 0 THEN t ELSE s.startTimeRef
      elapsed  == t - start
      timeDiff == TimeDiff(current, next)
      p        == Progress(elapsed, index, timeDiff)
      lat      == Interpolate(current.latitude, next.latitude, p)
      lng      == Interpolate(current.longitude, next.longitude, p)
      moved    == s.lastPositionRef # <<>>
      dist     == IF moved
                    THEN haversineDistance(s.lastPositionRef[1], s.lastPositionRef[2], lat, lng)
                    ELSE Num(0)
      secDiff  == t - (IF s.lastTimestampRef # <<>>
                         THEN getTime(s.lastTimestampRef[1]) ELSE t)
      advance  == FGe(p, Num(1))
  IN  [currentIndex      |-> IF advance THEN NextIndex(s.currentIndex)
                                         ELSE s.currentIndex,
       elapsedTime       |-> Num(elapsed),
       distanceTravelled |-> IF moved THEN FAdd(s.distanceTravelled, dist)
                                      ELSE s.distanceTravelled,
       speed             |-> IF moved /\ secDiff > 0 THEN FDiv(dist, Num(secDiff))
                                                     ELSE s.speed,
       progressRef       |-> IF advance THEN Num(0) ELSE p,
       lastTimestampRef  |-> <<toISOString(current.timestamp)>>,
       lastPositionRef   |-> <<lat, lng>>,
       startTimeRef      |-> IF advance THEN t2 ELSE start]

\* line 79: route[currentIndex + 1] is undefined
NoNext(index) == index + 2 > Len(route)

\* animate returning at the end of the route without setPlaying(false)
StopAtEnd_Keeps(p) == p

\* lines 79-82: what animate does to playing when there is no next waypoint
StopAtEnd(p) == FALSE

\* what the history keeps of a tick that left the fields s: its offset from
\* the session's first tick, and the index, progress and position shown
Sample(off, s) ==
  [off |-> off, index |-> s.currentIndex, progress |-> s.progressRef,
   position |-> s.lastPositionRef]

Record(t, s) ==
  LET o == IF origin = 0 THEN t ELSE origin
      on == rec /\ Len(trace) < MaxTrace
  IN  /\ origin' = IF on THEN o ELSE origin
      /\ trace' = IF on THEN Append(trace, Sample(t - o, s)) ELSE trace

\* The animation-frame callback f (animate, lines 73-114) run at wall-clock
\* instant now + d; d2 is the time the callback itself takes up to its
\* second read of the clock.
Animate(f, d, d2) ==
  /\ f \in frames
  /\ ticked' = TRUE
  /\ IF ~f.playing \/ Len(route) = 0
       THEN /\ d = 0 /\ d2 = 0
            /\ frames' = frames \ {f}
            /\ UNCHANGED <<state, refs, now, pending, phase, origin, trace>>
     ELSE IF NoNext(f.currentIndex)
       THEN /\ d = 0 /\ d2 = 0
            /\ frames' = frames \ {f}
            /\ playing' = StopAtEnd(playing)
            /\ pending' = (pending \/ playing' # playing)
            /\ phase' = IF playing' = playing THEN phase ELSE "completed"
            /\ origin' = IF playing' THEN origin ELSE 0
            /\ trace' = IF playing' THEN trace ELSE <<>>
            /\ UNCHANGED <<route, currentIndex, elapsedTime, distanceTravelled, speed,
                           refs, now>>
     ELSE LET t  == now + d
              s  == AnimateStep(Fields, f.currentIndex, t, t + d2)
              id == NewFrameId(frames \ {f}, animationRef)
          IN  /\ (d2 # 0 => s.startTimeRef = t + d2)
              /\ SetFields(s)
              /\ now' = t + d2
              /\ animationRef' = id
              /\ frames' = (frames \ {f}) \cup {[f EXCEPT !.id = id]}
              /\ pending' = (pending \/ StateChanged(s))
              /\ Record(t, s)
              /\ UNCHANGED <<route, playing, phase>>
  /\ UNCHANGED <<fetching, rendered, prevStop, rec>>

\* the browser delivers frame f after the last update has been rendered
Tick(f, d, d2) ==
  /\ ~pending
  /\ now + d + d2 <= MaxNow
  /\ Animate(f, d, d2)

Next ==
  \/ \E data \in Routes : LoadRoute(data)
  \/ Commit
  \/ PlayPauseClick
  \/ ResetClick
  \/ \E f \in frames : \E d \in 0..MaxDelta : \E d2 \in 0..1 : Tick(f, d, d2)

Spec == Init /\ [][Next]_vars
SpecTrace == InitTrace /\ [][Next]_vars

\* The browser delivers frame f, and the user clicks, before the render and
\* effects of the last state update have run: the callback is the one of an
\* older render, with that render's playing and currentIndex.
StaleTick(f, d, d2) ==
  /\ pending
  /\ now + d + d2 <= MaxNow
  /\ Animate(f, d, d2)

EarlyPlayPauseClick == pending /\ TogglePlaying

EarlyResetClick == pending /\ ResetAll

NextRace ==
  \/ Next
  \/ \E f \in frames : \E d \in 0..MaxDelta : \E d2 \in 0..1 : StaleTick(f, d, d2)
  \/ EarlyPlayPauseClick
  \/ EarlyResetClick

SpecRace == Init /\ [][NextRace]_vars

\* One uninterrupted playback: the route loads, play is pressed once, and
\* the browser keeps delivering frames at strictly advancing instants.
\* LiveHorizon is an instant no such playback is still running at.
LiveHorizon == Now0 + (2 * MaxLen * (MaxDelta + 1)) + (MaxLen * MaxStamp)

PlayOnce == phase = "init" /\ PlayPauseClick

SteadyTick(f, d, d2) ==
  /\ ~pending
  /\ now + d + d2 <= LiveHorizon
  /\ d = 0 => (~f.playing \/ Len(route) = 0 \/ NoNext(f.currentIndex))
  /\ Animate(f, d, d2)

SteadyTicks ==
  \E f \in frames : \E d \in 0..MaxDelta : \E d2 \in 0..1 : SteadyTick(f, d, d2)

NextLive ==
  \/ \E data \in Routes : LoadRoute(data)
  \/ Commit
  \/ PlayOnce
  \/ SteadyTicks

\* ENABLED <<SteadyTicks>>_vars: some requested frame can run; one that
\* takes a sample does so a second or more after the last read of the clock
SteadyTickEnabled ==
  /\ ~pending
  /\ \E f \in frames :
       IF ~f.playing \/ Len(route) = 0 \/ NoNext(f.currentIndex)
         THEN now <= LiveHorizon
         ELSE now + 1 <= LiveHorizon

\* WF_vars(SteadyTicks), with its ENABLED written out: the browser runs a
\* requested frame that stays requested
TickFairness == []<>(~SteadyTickEnabled) \/ []<><<SteadyTicks>>_vars

\* React renders a scheduled update (WF on Commit); the browser delivers
\* requested frames
SpecLive == Init /\ [][NextLive]_vars /\ WF_vars(Commit) /\ TickFairness

\* ----------------------------------------------------------------- claims
Telemetry == <<elapsedTime, distanceTravelled, speed>>
Playback  == <<currentIndex, progressRef, elapsedTime, distanceTravelled, speed>>
AllZero   == /\ currentIndex = 0
             /\ progressRef = Num(0)
             /\ elapsedTime = Num(0)
             /\ distanceTravelled = Num(0)
             /\ speed = Num(0)
Settled   == ~pending

\* C1: once playback of a route of N >= 2 waypoints has completed naturally,
\* currentIndex is N-1 and playing is false until the next play or reset.
C1_CompletedStaysAtEnd ==
  (phase = "completed" /\ Len(route) >= 2)
    => (currentIndex = Len(route) - 1 /\ ~playing)

\* C2: a pause sets playing to false and leaves index, progress, elapsed
\* time, distance and speed at their values, in the pause step and in every
\* step that follows it until the next command.
C2_PauseFreezes ==
  [][phase' = "paused" => (~playing' /\ Playback' = Playback)]_vars

\* C3: natural completion leaves elapsed time, distance and speed at their
\* final values, in the completing tick and in every step after it until the
\* next command.
C3_CompletionPreserves ==
  [][phase' = "completed" => (~playing' /\ Telemetry' = Telemetry)]_vars

\* C4: a reset issued in any state leaves, from the handler's return until
\* the next command, playing false, index, progress, elapsed time, distance
\* and speed zero and no last sample, and the route as it was.
C4_ResetZeroes ==
  [][phase' = "reset" =>
       /\ ~playing'
       /\ AllZero'
       /\ lastPositionRef' = <<>>
       /\ lastTimestampRef' = <<>>
       /\ route' = route]_vars

\* C4 witness: reset was pressed while playing, with a frame still requested
C4_Witness ==
  /\ phase = "reset"
  /\ pending
  /\ frames # {}
  /\ Len(route) >= 2
  /\ now > Now0

\* C5: in every settled state in which playing is false, index, progress,
\* elapsed time, distance and speed hold their initial values.
C5_IdleIsInitial == (Settled /\ ~playing) => AllZero

\* C5 witness: settled after a pause that followed ticks
C5_Witness ==
  /\ Settled
  /\ ~playing
  /\ phase = "paused"
  /\ now > Now0

\* C6: within one playing session distanceTravelled never decreases from
\* one step to the next (JS >=, which NaN fails).
C6_DistanceMonotone ==
  [][(phase = "playing" /\ phase' = "playing")
       => FGe(distanceTravelled', distanceTravelled)]_vars

\* C7: progressRef is a number within [0, 1] in every reachable state.
C7_ProgressInUnitInterval ==
  /\ IsFinite(progressRef)
  /\ FGe(progressRef, Num(0))
  /\ FGe(Num(1), progressRef)

NoNaN ==
  /\ ~IsNaN(progressRef)
  /\ ~IsNaN(distanceTravelled)
  /\ lastPositionRef # <<>> =>
       (~IsNaN(lastPositionRef[1]) /\ ~IsNaN(lastPositionRef[2]))

\* C8: when the first two waypoints share a timestamp, the first tick after
\* play advances the index, and no NaN reaches progress, the sampled
\* position or the distance.
C8_ZeroDurationSnaps ==
  (/\ Len(route) >= 2
   /\ route[1].timestamp = route[2].timestamp
   /\ phase = "playing"
   /\ ticked)
    => (currentIndex >= 1 /\ NoNaN)

\* the fields of the freshly mounted component
FreshFields ==
  [currentIndex |-> 0, elapsedTime |-> Num(0), distanceTravelled |-> Num(0),
   speed |-> Num(0), progressRef |-> Num(0), lastTimestampRef |-> <<>>,
   lastPositionRef |-> <<>>, startTimeRef |-> 0]

\* The samples of a first play: from fields s, ticks at the offsets offs
\* from the instant Now0 of the first tick, each followed by the render and
\* effects its index change triggers.
RECURSIVE FirstPlay(_, _)
FirstPlay(s, offs) ==
  IF offs = <<>> \/ NoNext(s.currentIndex) THEN <<>>
  ELSE LET t  == Now0 + Head(offs)
           s1 == AnimateStep(s, s.currentIndex, t, t)
           s2 == IF s1.currentIndex # s.currentIndex THEN ClearOrigin(s1) ELSE s1
       IN  <<Sample(Head(offs), s1)>> \o FirstPlay(s2, Tail(offs))

Offsets(tr) == [k \in 1..Len(tr) |-> tr[k].off]

\* C9: in every session, the first one and each one after a reset, pause or
\* completion, the index, progress and position sampled tick by tick are
\* those of a first play of the route driven at the same offsets from its
\* first tick; two sessions driven at the same offsets therefore agree.
C9_ReplayDeterministic == trace = FirstPlay(FreshFields, Offsets(trace))

\* C9 witness: a session started after a reset has been sampled up to a
\* tick past its first that moved the vehicle into a later segment
C9_Witness ==
  /\ prevStop = "reset"
  /\ phase = "playing"
  /\ Len(trace) >= 2
  /\ trace[Len(trace)].off > 0
  /\ trace[Len(trace)].index >= 1
  /\ trace[Len(trace)].position # trace[1].position

\* C10 as claimed: with 0 or 1 waypoints playing never becomes true, no
\* frame is requested and index, progress and telemetry stay initial.
C10_PlayIsNoOp ==
  Len(route) <= 1 => (~playing /\ frames = {} /\ AllZero)

\* C10 as amended: with 1 waypoint play sets playing and requests one frame,
\* whose callback stops playback without taking a sample; index, progress
\* and telemetry stay initial throughout.  With 0 waypoints playing stays
\* false and no frame is requested.
C10_ShortRouteStopsAtFirstTick ==
  Len(route) <= 1 =>
    /\ AllZero
    /\ lastPositionRef = <<>>
    /\ Cardinality(frames) <= 1
    /\ ticked => ~playing
    /\ Len(route) = 0 => (~playing /\ frames = {})

\* C10 witness: the single frame of a 1-waypoint route has run
C10_Witness ==
  /\ Len(route) = 1
  /\ phase = "completed"
  /\ ticked
  /\ ~playing

\* the session's latest tick is the last sample of the history
Sampled == Len(trace') = Len(trace) + 1
LastOff(tr) == tr[Len(tr)].off

\* every segment of the route lasts: no division by a zero duration (C8)
StrictStamps ==
  \A i \in 1..(Len(route) - 1) : route[i].timestamp < route[i + 1].timestamp

\* C11: on every tick of a playing session elapsedTime is the tick's instant
\* minus the instant of the session's first tick, and it never decreases
\* while the session lasts, index advances included.  Stated for routes
\* whose segments all last.
C11_ElapsedIsSessionTime ==
  [][(StrictStamps /\ phase = "playing" /\ phase' = "playing") =>
       /\ FGe(elapsedTime', elapsedTime)
       /\ Sampled => elapsedTime' = Num(LastOff(trace'))]_vars

\* C12: a tick whose instant is not after that of the session's previous
\* tick leaves speed and distanceTravelled as they were.  Stated for routes
\* whose segments all last.
C12_DuplicateTickHolds ==
  [][(/\ StrictStamps
      /\ Len(trace) >= 1
      /\ Sampled
      /\ LastOff(trace') <= LastOff(trace)) =>
       (speed' = speed /\ distanceTravelled' = distanceTravelled)]_vars

Max(a, b) == IF a >= b THEN a ELSE b
InRange == 0 <= currentIndex /\ currentIndex < Max(Len(route), 1)

\* C13: currentIndex stays within 0 .. max(len(route), 1) - 1, and while
\* playing a step leaves it or raises it by one.
C13_IndexInRange ==
  [][/\ InRange'
     /\ (playing /\ playing') =>
          (currentIndex' = currentIndex \/ currentIndex' = currentIndex + 1)]_vars

\* C13 witness: a tick has advanced the index to the last waypoint of a
\* route of three or more while the frame of the older index is requested
C13_Witness ==
  /\ playing
  /\ pending
  /\ Len(route) >= 3
  /\ currentIndex = Len(route) - 1
  /\ \E f \in frames : f.currentIndex < currentIndex

\* a step in which animate takes a sample, in a specification whose frames
\* run only once the last update is rendered
SampleStep == ~pending /\ animationRef' # animationRef

\* C14: a tick advances the index from i to i+1 exactly when the time since
\* the first tick of segment i has reached timestamp(i+1) - timestamp(i);
\* the advance resets progress to 0 and re-anchors the origin at the clock.
\* Stated for routes whose segments all last.
C14_SegmentWindow ==
  [][(StrictStamps /\ SampleStep) =>
       LET i  == currentIndex
           td == TimeDiff(route[i + 1], route[i + 2])
       IN  /\ (currentIndex' = i + 1) <=> (elapsedTime'.n >= td)
           /\ currentIndex' = i + 1 =>
                (progressRef' = Num(0) /\ startTimeRef' = now')]_vars

\* C15: on every tick after a session's first, with secs the wall-clock
\* seconds since the previous tick and delta the distance between the two
\* sampled positions, speed becomes delta / secs when secs > 0 and keeps
\* its value otherwise.  Stated for routes whose segments all last.
C15_SpeedUsesTickInterval ==
  [][(StrictStamps /\ Len(trace) >= 1 /\ Sampled) =>
       LET secs  == LastOff(trace') - LastOff(trace)
           delta == haversineDistance(lastPositionRef[1], lastPositionRef[2],
                                      lastPositionRef'[1], lastPositionRef'[2])
       IN  speed' = IF secs > 0 THEN FDiv(delta, Num(secs)) ELSE speed]_vars

\* C16: once play is pressed on a route of two or more waypoints and frames
\* keep coming at strictly advancing instants with no pause or reset,
\* playback stops; and every segment entered, zero-duration and index >= 1
\* included, is left for the next index.
C16_PlaybackTerminates ==
  /\ (playing /\ Len(route) >= 2) ~> ~playing
  /\ \A i \in 0..(MaxLen - 1) :
       (playing /\ currentIndex = i /\ ~NoNext(i)) ~> (currentIndex = i + 1)

\* C16 witness: a route of three or more waypoints whose second segment has
\* zero duration has been played to its end
C16_Witness ==
  /\ phase = "completed"
  /\ ~playing
  /\ Settled
  /\ Len(route) >= 3
  /\ route[2].timestamp = route[3].timestamp
  /\ route[1].timestamp < route[2].timestamp

\* C17: at most one animation-frame request is outstanding, whatever the
\* order of clicks, ticks, renders and effects.
C17_OneFramePending == Cardinality(frames) <= 1

\* C17 witness: the frame requested by the effect that follows an index
\* advance is the only one outstanding
C17_Witness ==
  /\ playing
  /\ Settled
  /\ currentIndex >= 1
  /\ frames = {[id |-> animationRef, playing |-> TRUE, currentIndex |-> currentIndex]}

Stopped == ~playing /\ Settled

\* C18: once playing is false and the stop effects have run, no frame
\* callback is left to run, and index, progress, telemetry and the
\* last-sample refs stay as they are until playing is set again.
C18_NoTickAfterStop ==
  [][Stopped =>
       /\ frames = {}
       /\ ~playing' =>
            /\ Playback' = Playback
            /\ lastPositionRef' = lastPositionRef
            /\ lastTimestampRef' = lastTimestampRef]_vars

\* C18 witness: playback was paused while a frame of the running session
\* was outstanding, a stale frame ran before the stop effects, and the
\* effects have since run
C18_Witness ==
  /\ Stopped
  /\ phase = "paused"
  /\ ticked
  /\ frames = {}
  /\ animationRef # 0

====
